---- MODULE Spec2Model ----
(***************************************************************************)
(* A model of src/app/page.tsx: the command interpreter                    *)
(* (parseCommandToPatch), the anchor resolver (resolveAnchor), applyPatch  *)
(* and the App component's state and handlers (pushHistory, undo, redo,    *)
(* insertParagraph, applyCommand, applyContent, applyPreset and the timer  *)
(* callback it schedules).                                                 *)
(*                                                                         *)
(* Text.  TLC's strings are atoms, so a command or a content string is a   *)
(* sequence of tokens, each token standing for a run of characters of the  *)
(* source text.  A regular expression test of the source becomes a test on *)
(* the tokens (Test, TestThen, MatchLabel, MatchPx, MatchContent).  The    *)
(* lexer accepts ASCII only, so Japanese tokens are written in romaji:     *)
(*   tekisuto テキスト   tsuika 追加     irete 入れて    sounyuu 挿入        *)
(*   oite 置いて         midashi 見出し  hedda ヘッダ    danraku 段落        *)
(*   honbun 本文         botan ボタン    ichiban-ue 一番上  sentou 先頭      *)
(*   ichiban-shita 一番下  matsubi 末尾  mae 前   ue 上   ato 後   shita 下  *)
(*   ookiku 大きく       chiisaku 小さく  dai 大   shou 小                   *)
(*   aka 赤  ao 青  midori 緑  kuro 黒  shiro 白  futoku 太く  hosoku 細く   *)
(*   hidari 左  chuuou 中央  migi 右  yohaku 余白  hiroku 広く  hiro 広      *)
(*   fuyasu 増やす  zou 増  semaku 狭く  sema 狭  herasu 減らす  gen 減      *)
(*   kanari かなり  motto もっと  sukoshi 少し  moji 文字                    *)
(*   wo を  no の  ni に  shite して  konnichiwa こんにちは                  *)
(*   (1) ① ... (20) ⑳                                                      *)
(***************************************************************************)
EXTENDS Integers, Sequences, FiniteSets, TLC

VARIABLES elements, selectedId, cmd, contentDraft, history, hIndex,
          pending, clock, crashed, last, aux

vars == <<elements, selectedId, cmd, contentDraft, history, hIndex,
          pending, clock, crashed, last, aux>>

----------------------------------------------------------------------------
(* Bounds of the model. *)

\* the longest history stack a behaviour builds (seed snapshot included)
MaxHist == 3
\* how many timer callbacks scheduled by applyPreset may be outstanding
MaxPending == 1
\* how many milliseconds the clock read by Date.now() may advance
MaxTick == 1
\* how many other events may be handled between a preset click and the timer
\* callback it scheduled
MaxRace == 1
\* how far below 0 and beyond the length an anchor index given to
\* insertParagraph lies
MaxOut == 2
\* the longest element sequence given to resolveAnchor
MaxLen == 3

----------------------------------------------------------------------------
(* Text: tokens and the regular-expression tests of the source. *)

Min(a, b) == IF a < b THEN a ELSE b
Max(a, b) == IF a > b THEN a ELSE b

\* The keywords of the source's regular expressions that occur inside a
\* token's text: 一番上 holds 上, 大きく holds 大, "lighter" holds "light",
\* "reduce" holds "red", ...
Atoms(t) ==
  CASE t = "ichiban-ue"    -> {"ichiban-ue", "ue"}
    [] t = "ichiban-shita" -> {"ichiban-shita", "shita"}
    [] t = "ookiku"        -> {"ookiku", "dai"}
    [] t = "chiisaku"      -> {"chiisaku", "shou"}
    [] t = "hiroku"        -> {"hiro"}
    [] t = "semaku"        -> {"sema"}
    [] t = "fuyasu"        -> {"zou"}
    [] t = "herasu"        -> {"gen"}
    [] t = "lighter"       -> {"lighter", "light"}
    [] t = "reduce"        -> {"reduce", "red"}
    [] t = "increase size" -> {"increase size", "increase"}
    [] OTHER               -> {t}

\* String.prototype.toLowerCase on one token
LowerTok(t) ==
  CASE t = "Bigger" -> "bigger"
    [] t = "Top"    -> "top"
    [] t = "Button" -> "button"
    [] OTHER        -> t

ToLowerCase(s) == [i \in DOMAIN s |-> LowerTok(s[i])]

RECURSIVE TrimStart(_)
TrimStart(s) == IF s # <<>> /\ Head(s) = " " THEN TrimStart(Tail(s)) ELSE s

RECURSIVE TrimEnd(_)
TrimEnd(s) ==
  IF s # <<>> /\ s[Len(s)] = " " THEN TrimEnd(SubSeq(s, 1, Len(s) - 1)) ELSE s

\* String.prototype.trim
Trim(s) == TrimEnd(TrimStart(s))

\* /(a|b|...)/.test(s): some keyword of kws occurs in s
Test(s, kws) == \E i \in DOMAIN s : Atoms(s[i]) \cap kws # {}

\* /(a|..).*(b|..)/.test(s): a keyword of as, and later a keyword of bs
TestThen(s, as, bs) ==
  \E i \in DOMAIN s : \E j \in DOMAIN s :
     i < j /\ Atoms(s[i]) \cap as # {} /\ Atoms(s[j]) \cap bs # {}

\* the circled numerals and what normalizeLabel writes for each
CircledMap ==
  ("(1)" :> "1") @@ ("(2)" :> "2") @@ ("(3)" :> "3") @@ ("(4)" :> "4") @@
  ("(5)" :> "5") @@ ("(6)" :> "6") @@ ("(7)" :> "7") @@ ("(8)" :> "8") @@
  ("(9)" :> "9") @@ ("(10)" :> "10") @@ ("(11)" :> "11") @@ ("(12)" :> "12") @@
  ("(13)" :> "13") @@ ("(14)" :> "14") @@ ("(15)" :> "15") @@ ("(16)" :> "16") @@
  ("(17)" :> "17") @@ ("(18)" :> "18") @@ ("(19)" :> "19") @@ ("(20)" :> "20")

\* the tokens made of the digits 0-9 only, with what \d{2,3} directly
\* before "px" captures of each, read by parseInt (-1: fewer than two digits,
\* no match; of "1000" the capture is "000")
DigitRuns ==
  ("1" :> -1) @@ ("2" :> -1) @@ ("3" :> -1) @@ ("5" :> -1) @@
  ("12" :> 12) @@ ("72" :> 72) @@ ("100" :> 100) @@ ("1000" :> 0)

\* [①-⑳0-9]
IsNumeral(t) == t \in DOMAIN CircledMap \/ t \in DOMAIN DigitRuns

RECURSIVE NumeralRun(_)
NumeralRun(s) ==
  IF s # <<>> /\ IsNumeral(Head(s)) THEN <<Head(s)>> \o NumeralRun(Tail(s)) ELSE <<>>

\* cmdRaw.match(/テキスト[①-⑳0-9]+/): the leftmost match, <<>> for null
MatchLabel(s) ==
  LET hits == {i \in DOMAIN s : s[i] = "tekisuto" /\ i < Len(s) /\ IsNumeral(s[i + 1])}
  IN  IF hits = {} THEN <<>>
      ELSE LET i == CHOOSE k \in hits : \A m \in hits : k <= m
           IN  <<"tekisuto">> \o NumeralRun(SubSeq(s, i + 1, Len(s)))

RECURSIVE SkipSpaces(_, _)
SkipSpaces(s, i) == IF i <= Len(s) /\ s[i] = " " THEN SkipSpaces(s, i + 1) ELSE i

\* cmd.match(/(\d{2,3})\s*px/): parseInt of the leftmost capture, -1 for null
MatchPx(s) ==
  LET hits == {i \in DOMAIN s :
                 /\ s[i] \in DOMAIN DigitRuns
                 /\ DigitRuns[s[i]] >= 0
                 /\ SkipSpaces(s, i + 1) <= Len(s)
                 /\ s[SkipSpaces(s, i + 1)] = "px"}
  IN  IF hits = {} THEN -1
      ELSE DigitRuns[s[CHOOSE k \in hits : \A m \in hits : k <= m]]

\* cmdRaw.match(/(文字|テキスト)を(.+)/): the second group of the leftmost
\* match, trimmed, as [hit |-> TRUE, text |-> ..]; [hit |-> FALSE] for null
MatchContent(s) ==
  LET hits == {i \in DOMAIN s :
                 s[i] \in {"moji", "tekisuto"} /\ i + 2 <= Len(s) /\ s[i + 1] = "wo"}
  IN  IF hits = {} THEN [hit |-> FALSE, text |-> <<>>]
      ELSE LET i == CHOOSE k \in hits : \A m \in hits : k <= m
           IN  [hit |-> TRUE, text |-> Trim(SubSeq(s, i + 2, Len(s)))]

----------------------------------------------------------------------------
(* Values: sparse objects are functions on the keys that are set. *)

\* the empty object {}
EmptyObj == <<>>

\* what reading an absent key gives
Undefined == [undefined |-> TRUE]

Get(obj, k) == IF k \in DOMAIN obj THEN obj[k] ELSE Undefined

\* { ...a, ...b }
Spread(a, b) == b @@ a

\* obj with key k set to v when cond holds (if (cond) obj.k = v)
SetIf(cond, obj, k, v) == IF cond THEN (k :> v) @@ obj ELSE obj

\* const px = (n) => `${Math.max(0, Math.round(n))}px`; "16px" is [px |-> 16]
px(n) == [px |-> Max(0, n)]

\* clampFont as it would be without Math.min(72, ...)
clampFontNoCeiling(pxVal) == Max(10, pxVal)

\* const clampFont = (pxVal) => Math.min(72, Math.max(10, pxVal))
clampFont(pxVal) == Min(72, Max(10, pxVal))

\* const parsePx = (v, fallback = 16) => (v ? parseInt(v, 10) : fallback)
parsePx(v, fallback) == IF v = Undefined THEN fallback ELSE v.px

placeholderStyle ==
  [color |-> "#9ca3af", fontSize |-> [px |-> 16], marginTop |-> [px |-> 8],
   marginBottom |-> [px |-> 8], textAlign |-> "left"]

\* the sentinel that marks an insertion request in patch.content
AddFlag == "__ADD__"

\* "テキスト①" -> "テキスト1"
normalizeLabel(raw) ==
  [i \in DOMAIN raw |-> IF raw[i] \in DOMAIN CircledMap THEN CircledMap[raw[i]] ELSE raw[i]]

\* what the interpreter gives when it dereferences an undefined element
Thrown == [thrown |-> "TypeError"]

\* the second half of parseCommandToPatch: the style and content rules
StylePatch(cmdRaw, c, current) ==
  LET st       == current.styles
      curSize  == parsePx(Get(st, "fontSize"), IF current.type = "heading" THEN 36 ELSE 16)
      s1       == SetIf(Test(c, {"ookiku", "bigger", "larger", "increase size", "++"}),
                        EmptyObj, "fontSize", px(clampFont(curSize + 6)))
      s2       == SetIf(Test(c, {"chiisaku", "smaller", "decrease size", "--"}),
                        s1, "fontSize", px(clampFont(curSize - 6)))
      s3       == SetIf(MatchPx(c) >= 0, s2, "fontSize", px(clampFont(MatchPx(c))))
      s4       == SetIf(Test(c, {"aka", "red"}), s3, "color", "#e11d48")
      s5       == SetIf(Test(c, {"ao", "blue"}), s4, "color", "#2563eb")
      s6       == SetIf(Test(c, {"midori", "green"}), s5, "color", "#16a34a")
      s7       == SetIf(Test(c, {"kuro", "black"}), s6, "color", "#111827")
      s8       == SetIf(Test(c, {"shiro", "white"}), s7, "color", "#ffffff")
      s9       == SetIf(Test(c, {"futoku", "bold"}), s8, "fontWeight", 700)
      s10      == SetIf(Test(c, {"hosoku", "light", "lighter"}), s9, "fontWeight", 300)
      wantsLeft   == Test(c, {"hidari", "left"})
      wantsCenter == Test(c, {"chuuou", "center"})
      wantsRight  == Test(c, {"migi", "right"})
      s11      == IF current.type = "button"
                  THEN SetIf(wantsRight,
                         SetIf(wantsCenter,
                           SetIf(wantsLeft, s10, "justifyContent", "flex-start"),
                           "justifyContent", "center"),
                         "justifyContent", "flex-end")
                  ELSE SetIf(wantsRight,
                         SetIf(wantsCenter,
                           SetIf(wantsLeft, s10, "textAlign", "left"),
                           "textAlign", "center"),
                         "textAlign", "right")
      mt       == parsePx(Get(st, "marginTop"), 16)
      mb       == parsePx(Get(st, "marginBottom"), 16)
      delta    == IF Test(c, {"kanari", "significant"}) THEN 32
                  ELSE IF Test(c, {"motto", "more"}) THEN 20 ELSE 8
      wider    == \/ TestThen(c, {"yohaku"}, {"hiro", "zou", "dai"})
                  \/ TestThen(c, {"more", "increase"}, {"space", "margin"})
      s12      == SetIf(wider, SetIf(wider, s11, "marginTop", px(mt + delta)),
                        "marginBottom", px(mb + delta))
      narrower == \/ TestThen(c, {"yohaku"}, {"sema", "gen", "shou"})
                  \/ TestThen(c, {"reduce", "less"}, {"space", "margin"})
      s13      == SetIf(narrower,
                        SetIf(narrower, s12, "marginTop", px(Max(0, mt - delta))),
                        "marginBottom", px(Max(0, mb - delta)))
      cm       == MatchContent(cmdRaw)
      p1       == SetIf(cm.hit, EmptyObj, "content", cm.text)
  IN  \* if (Object.keys(patch.styles).length === 0) delete patch.styles
      SetIf(DOMAIN s13 # {}, p1, "styles", s13)

\* a patch whose content starts with the sentinel and nothing else
ParsedAdd(addMatch) == [content |-> <<AddFlag>> \o normalizeLabel(addMatch)]

\* parseCommandToPatch as it would be without the insertion rule placed first
parseCommandToPatchStylesOnly(cmdRaw, current) ==
  IF current = Undefined THEN Thrown
  ELSE StylePatch(cmdRaw, ToLowerCase(Trim(cmdRaw)), current)

\* function parseCommandToPatch(cmdRaw, current): Patch
parseCommandToPatch(cmdRaw, current) ==
  LET c        == ToLowerCase(Trim(cmdRaw))
      addMatch == MatchLabel(cmdRaw)
  IN  IF addMatch # <<>> /\ Test(c, {"tsuika", "irete", "sounyuu", "oite"})
      THEN ParsedAdd(addMatch)
      ELSE IF current = Undefined THEN Thrown
      ELSE StylePatch(cmdRaw, c, current)

----------------------------------------------------------------------------
(* Elements, anchors and the two other pure functions. *)

\* an element id: "h1-1" is <<"h1-", 1>>, `p-${Date.now()}` is <<"p-", now>>
NullId == <<"null", 0>>

\* the null of `selected` and of an Anchor
Null == [null |-> TRUE]

\* Array.prototype.findIndex for "the type is ty": 0-based, -1 if none
FindType(els, ty) ==
  LET hits == {i \in DOMAIN els : els[i].type = ty}
  IN  IF hits = {} THEN -1 ELSE (CHOOSE k \in hits : \A m \in hits : k <= m) - 1

\* Array.prototype.findIndex for "the id is id": 0-based, -1 if none
FindId(els, id) ==
  LET hits == {i \in DOMAIN els : els[i].id = id}
  IN  IF hits = {} THEN -1 ELSE (CHOOSE k \in hits : \A m \in hits : k <= m) - 1

\* function resolveAnchor(cmdRaw, elements, selected): Anchor
resolveAnchor(cmdRaw, els, selected) ==
  LET c              == Trim(cmdRaw)
      wantsTop       == Test(c, {"ichiban-ue", "sentou", "top"})
      wantsBottom    == Test(c, {"ichiban-shita", "matsubi", "bottom"})
      before         == Test(c, {"mae", "ue", "before"})
      wantsHeading   == Test(c, {"midashi", "hedda", "heading", "h1"})
      wantsParagraph == /\ Test(c, {"danraku", "honbun", "paragraph", "tekisuto"})
                        /\ ~Test(c, {"botan"})
      wantsButton    == Test(c, {"botan", "button"})
      place          == IF before THEN "before" ELSE "after"
  IN  IF wantsTop THEN [index |-> 0, place |-> "before"]
      ELSE IF wantsBottom THEN [index |-> Len(els) - 1, place |-> "after"]
      ELSE IF wantsHeading /\ FindType(els, "heading") >= 0
        THEN [index |-> FindType(els, "heading"), place |-> place]
      ELSE IF wantsParagraph /\ FindType(els, "paragraph") >= 0
        THEN [index |-> FindType(els, "paragraph"), place |-> place]
      ELSE IF wantsButton /\ FindType(els, "button") >= 0
        THEN [index |-> FindType(els, "button"), place |-> place]
      ELSE IF selected # Null
        THEN [index |-> FindId(els, selected.id), place |-> place]
      ELSE Null

\* function applyPatch(el, patch): ElementModel
applyPatch(el, patch) ==
  [id      |-> el.id,
   type    |-> el.type,
   content |-> IF "content" \in DOMAIN patch THEN patch.content ELSE el.content,
   styles  |-> Spread(el.styles, IF "styles" \in DOMAIN patch THEN patch.styles ELSE EmptyObj)]

----------------------------------------------------------------------------
(* The App component: its state and its handlers.  A handler reads the     *)
(* values of the render R it was created in (a closure) and calls setters; *)
(* it is modelled as the object of the values it sets, which Commit writes *)
(* over the current state.                                                 *)

\* Date.now() when the component mounts
Clock0 == 1000

\* the seed: useMemo(() => [h1-1, p-1, btn-1])
initial ==
  << [id |-> <<"h1-", 1>>, type |-> "heading", content |-> <<"seed-heading">>,
      styles |-> [color |-> "#111827", fontSize |-> [px |-> 36], fontWeight |-> 700,
                  marginTop |-> [px |-> 8], marginBottom |-> [px |-> 16],
                  textAlign |-> "left"]],
     [id |-> <<"p-", 1>>, type |-> "paragraph", content |-> <<"seed-paragraph">>,
      styles |-> [color |-> "#374151", fontSize |-> [px |-> 16],
                  marginTop |-> [px |-> 8], marginBottom |-> [px |-> 16],
                  textAlign |-> "left"]],
     [id |-> <<"btn-", 1>>, type |-> "button", content |-> <<"seed-button">>,
      styles |-> [color |-> "#ffffff", fontSize |-> [px |-> 16], fontWeight |-> 600,
                  marginTop |-> [px |-> 16], marginBottom |-> [px |-> 0],
                  textAlign |-> "center", justifyContent |-> "center"]] >>

\* the values of the current render
Render ==
  [elements |-> elements, selectedId |-> selectedId, cmd |-> cmd,
   contentDraft |-> contentDraft, history |-> history, hIndex |-> hIndex]

\* the values of a render that applyCommand reads
Captured(R) ==
  [elements |-> R.elements, selectedId |-> R.selectedId, cmd |-> R.cmd,
   history |-> R.history, hIndex |-> R.hIndex]

\* const selected = elements.find((e) => e.id === selectedId) || null
selectedOf(R) ==
  IF FindId(R.elements, R.selectedId) < 0 THEN Null
  ELSE R.elements[FindId(R.elements, R.selectedId) + 1]

\* pushHistory as it would be without history.slice(0, hIndex + 1)
pushHistoryKeepAll(R, next) ==
  LET newStack == R.history \o <<next>>
  IN  [history |-> newStack, hIndex |-> Len(newStack) - 1]

\* const pushHistory = (next) => { ... }
pushHistory(R, next) ==
  LET newStack == SubSeq(R.history, 1, Min(R.hIndex + 1, Len(R.history))) \o <<next>>
  IN  [history |-> newStack, hIndex |-> Len(newStack) - 1]

\* undo as it would be without setElements(history[hIndex - 1])
undoCursorOnly(R) ==
  IF R.hIndex > 0 THEN [hIndex |-> R.hIndex - 1] ELSE EmptyObj

\* const undo = () => { ... }
undo(R) ==
  IF R.hIndex > 0
  THEN [hIndex |-> R.hIndex - 1, elements |-> R.history[R.hIndex]]
  ELSE EmptyObj

\* redo as it would be without setElements(history[hIndex + 1])
redoCursorOnly(R) ==
  IF R.hIndex < Len(R.history) - 1 THEN [hIndex |-> R.hIndex + 1] ELSE EmptyObj

\* const redo = () => { ... }
redo(R) ==
  IF R.hIndex < Len(R.history) - 1
  THEN [hIndex |-> R.hIndex + 1, elements |-> R.history[R.hIndex + 2]]
  ELSE EmptyObj

\* next.splice(at, 0, newEl)
Splice(els, at, newEl) ==
  SubSeq(els, 1, at) \o <<newEl>> \o SubSeq(els, at + 1, Len(els))

\* insertParagraph as it would be with pos = anchor.index + 1 for both places
insertParagraphAfterOnly(R, label, anchor, now) ==
  LET newEl == [id |-> <<"p-", now>>, type |-> "paragraph", content |-> label,
                styles |-> placeholderStyle]
      next  == IF anchor = Null THEN Append(R.elements, newEl)
               ELSE Splice(R.elements, Max(0, Min(anchor.index + 1, Len(R.elements))), newEl)
  IN  [elements |-> next, cmd |-> <<>>] @@ pushHistory(R, next)

\* const insertParagraph = (label, anchor) => { ... }; now is Date.now()
insertParagraph(R, label, anchor, now) ==
  LET newEl == [id |-> <<"p-", now>>, type |-> "paragraph", content |-> label,
                styles |-> placeholderStyle]
      pos   == IF anchor.place = "before" THEN anchor.index ELSE anchor.index + 1
      next  == IF anchor = Null THEN Append(R.elements, newEl)
               ELSE Splice(R.elements, Max(0, Min(pos, Len(R.elements))), newEl)
  IN  [elements |-> next, cmd |-> <<>>] @@ pushHistory(R, next)

\* patch.content && patch.content.startsWith("__ADD__")
IsAdd(patch) ==
  /\ "content" \in DOMAIN patch
  /\ patch.content # <<>>
  /\ Head(patch.content) = AddFlag

\* !patch.content && !patch.styles
IsEmptyPatch(patch) ==
  /\ ("content" \notin DOMAIN patch \/ patch.content = <<>>)
  /\ "styles" \notin DOMAIN patch

\* applyCommand as it would be without `if (!patch.content && !patch.styles) return`
applyCommandPushEmpty(R, now) ==
  LET selected == selectedOf(R)
      current  == IF selected # Null THEN selected
                  ELSE IF R.elements # <<>> THEN R.elements[1] ELSE Undefined
      patch    == parseCommandToPatch(R.cmd, current)
  IN  IF selected = Null /\ Trim(R.cmd) = <<>> THEN EmptyObj
      ELSE IF patch = Thrown THEN [crashed |-> TRUE]
      ELSE IF IsAdd(patch)
        THEN insertParagraph(R, Trim(Tail(patch.content)),
                             resolveAnchor(R.cmd, R.elements, selected), now)
      ELSE IF selected = Null THEN EmptyObj
      ELSE LET next == [i \in DOMAIN R.elements |->
                          IF R.elements[i].id = selected.id
                          THEN applyPatch(R.elements[i], patch) ELSE R.elements[i]]
           IN  [elements |-> next, cmd |-> <<>>] @@ pushHistory(R, next)

\* const applyCommand = () => { ... }; now is what Date.now() would return
applyCommand(R, now) ==
  LET selected == selectedOf(R)
      current  == IF selected # Null THEN selected
                  ELSE IF R.elements # <<>> THEN R.elements[1] ELSE Undefined
      patch    == parseCommandToPatch(R.cmd, current)
  IN  IF selected = Null /\ Trim(R.cmd) = <<>> THEN EmptyObj
      ELSE IF patch = Thrown THEN [crashed |-> TRUE]
      ELSE IF IsAdd(patch)
        THEN insertParagraph(R, Trim(Tail(patch.content)),
                             resolveAnchor(R.cmd, R.elements, selected), now)
      ELSE IF selected = Null THEN EmptyObj
      ELSE IF IsEmptyPatch(patch) THEN EmptyObj
      ELSE LET next == [i \in DOMAIN R.elements |->
                          IF R.elements[i].id = selected.id
                          THEN applyPatch(R.elements[i], patch) ELSE R.elements[i]]
           IN  [elements |-> next, cmd |-> <<>>] @@ pushHistory(R, next)

\* const applyContent = () => { ... }
applyContent(R) ==
  LET selected == selectedOf(R)
  IN  IF selected = Null \/ Trim(R.contentDraft) = <<>> THEN EmptyObj
      ELSE LET next == [i \in DOMAIN R.elements |->
                          IF R.elements[i].id = selected.id
                          THEN applyPatch(R.elements[i], [content |-> Trim(R.contentDraft)])
                          ELSE R.elements[i]]
           IN  [elements |-> next, contentDraft |-> <<>>] @@ pushHistory(R, next)

\* the timer callback applyPreset schedules: the applyCommand of the render
\* in which the preset button was clicked
Closure(R, preset) == [render |-> Captured(R), preset |-> preset, raced |-> 0]

\* an event is handled while timers are outstanding: each has been overtaken
\* by one more event
Overtake ==
  /\ \A i \in DOMAIN pending : pending[i].raced < MaxRace
  /\ pending' = [i \in DOMAIN pending |-> [pending[i] EXCEPT !.raced = @ + 1]]

\* the state after the setter calls u of one handler have been applied
Commit(u) ==
  /\ elements'     = IF "elements" \in DOMAIN u THEN u.elements ELSE elements
  /\ cmd'          = IF "cmd" \in DOMAIN u THEN u.cmd ELSE cmd
  /\ contentDraft' = IF "contentDraft" \in DOMAIN u THEN u.contentDraft ELSE contentDraft
  /\ history'      = IF "history" \in DOMAIN u THEN u.history ELSE history
  /\ hIndex'       = IF "hIndex" \in DOMAIN u THEN u.hIndex ELSE hIndex
  /\ crashed'      = IF "crashed" \in DOMAIN u THEN u.crashed ELSE crashed
  /\ Len(history') <= MaxHist

\* the clock moves to the reading now if the handler read it (it pushed an
\* insertion), and is left alone otherwise
ReadClock(u, R, now) ==
  clock' = IF "elements" \in DOMAIN u /\ Len(u.elements) > Len(R.elements) THEN now ELSE clock

----------------------------------------------------------------------------
(* The commands typed or clicked. *)

CmdBigger          == <<"ookiku">>
CmdSmaller         == <<"chiisaku">>
CmdPx100           == <<"100", "px">>
CmdAdd1            == <<"tekisuto", "1", "wo", "tsuika">>
CmdAddBelowHeading == <<"midashi", "no", "shita", "ni", "tekisuto", "2", "wo", "tsuika">>
CmdAddBeforeButton == <<"botan", "no", "mae", "ni", "tekisuto", "3", "wo", "tsuika">>
CmdAddThenBlue     == <<"tekisuto", "(1)", "wo", "tsuika", "shite", "ao", "ni">>
CmdHello           == <<"konnichiwa">>
\* 文字をテキスト3を入れて大きく太く中央赤余白広く72px
CmdAddEverything   == <<"moji", "wo", "tekisuto", "3", "wo", "irete", "ookiku", "futoku",
                        "chuuou", "aka", "yohaku", "hiroku", "72", "px">>

\* the fourteen preset buttons of the quick-operation grid hold these and
\* nine more style commands; each specification below clicks some of them
SizePresets   == {CmdBigger, CmdSmaller}
InsertPresets == {CmdAdd1, CmdAddBelowHeading, CmdAddBeforeButton}

\* what the user types into the content field
Drafts == {<<>>, <<"new-text">>}

----------------------------------------------------------------------------
(* The actions: one per event handler.  They leave the two bookkeeping     *)
(* variables to the specification that uses them: last, what the last      *)
(* handler that touched the history was and saw; aux, the inputs drawn for *)
(* a function or the progress of a scenario.                               *)

InitApp ==
  /\ elements = initial
  /\ selectedId = <<"h1-", 1>>
  /\ cmd = <<>>
  /\ contentDraft = <<>>
  /\ history = <<initial>>
  /\ hIndex = 0
  /\ pending = <<>>
  /\ clock = Clock0
  /\ crashed = FALSE

\* onClick={() => setSelectedId(el.id)} of a rendered element
Select ==
  /\ \E i \in DOMAIN elements : selectedId' = elements[i].id
  /\ UNCHANGED <<elements, cmd, contentDraft, history, hIndex, clock, crashed>>
  /\ Overtake

\* onChange={(e) => setCmd(e.target.value)}, the text typed drawn from typed
SetCmd(typed) ==
  /\ \E c \in typed : cmd' = c
  /\ UNCHANGED <<elements, selectedId, contentDraft, history, hIndex, clock, crashed>>
  /\ Overtake

\* onChange={(e) => setContentDraft(e.target.value)}
SetContentDraft ==
  /\ \E d \in Drafts : contentDraft' = d
  /\ UNCHANGED <<elements, selectedId, cmd, history, hIndex, clock, crashed>>
  /\ Overtake

\* onClick={undo}
Undo ==
  /\ Commit(undo(Render))
  /\ UNCHANGED <<selectedId, clock>>
  /\ Overtake

\* onClick={redo}
Redo ==
  /\ Commit(redo(Render))
  /\ UNCHANGED <<selectedId, clock>>
  /\ Overtake

\* onClick={applyContent}
ApplyContent ==
  /\ Commit(applyContent(Render))
  /\ UNCHANGED <<selectedId, clock>>
  /\ Overtake

\* onClick={applyCommand}
ApplyCommand ==
  /\ \E now \in clock .. Clock0 + MaxTick :
        /\ Commit(applyCommand(Render, now))
        /\ ReadClock(applyCommand(Render, now), Render, now)
  /\ UNCHANGED selectedId
  /\ Overtake

\* const applyPreset = (preset) => { setCmd(preset); setTimeout(applyCommand, 0); }
\* for a preset button of presets
ApplyPreset(presets) ==
  /\ Len(pending) < MaxPending
  /\ \A i \in DOMAIN pending : pending[i].raced < MaxRace
  /\ \E p \in presets :
        /\ cmd' = p
        /\ pending' = Append([i \in DOMAIN pending |-> [pending[i] EXCEPT !.raced = @ + 1]],
                             Closure(Render, p))
  /\ UNCHANGED <<elements, selectedId, contentDraft, history, hIndex, clock, crashed>>

\* the timer fires: the applyCommand captured by the oldest outstanding timer
Timer ==
  /\ pending # <<>>
  /\ \E now \in clock .. Clock0 + MaxTick :
        /\ Commit(applyCommand(Head(pending).render, now))
        /\ ReadClock(applyCommand(Head(pending).render, now), Head(pending).render, now)
  /\ pending' = Tail(pending)
  /\ UNCHANGED selectedId

\* what a handler that ran in render R and made the setter calls u did to
\* the history: nothing ("kept"), a move of the cursor ("moved"), a push with
\* the cursor at the latest snapshot ("pushed") or before it ("cut")
Did(op, R, u) ==
  [op   |-> op,
   what |-> IF "history" \in DOMAIN u
            THEN (IF R.hIndex < Len(R.history) - 1 THEN "cut" ELSE "pushed")
            ELSE IF "hIndex" \in DOMAIN u THEN "moved" ELSE "kept"]

\* a handler that cannot touch the history ran
Other == [op |-> "other", what |-> "kept"]

----------------------------------------------------------------------------
(* Spec: the editor with every handler, the presets "smaller" and "add     *)
(* text 2 below the heading" and one typed command that matches no rule.   *)

Init == InitApp /\ last = Null /\ aux = Null

Next ==
  \/ Select /\ UNCHANGED <<last, aux>>
  \/ SetCmd({CmdHello}) /\ UNCHANGED <<last, aux>>
  \/ SetContentDraft /\ UNCHANGED <<last, aux>>
  \/ Undo /\ UNCHANGED <<last, aux>>
  \/ Redo /\ UNCHANGED <<last, aux>>
  \/ ApplyContent /\ UNCHANGED <<last, aux>>
  \/ ApplyCommand /\ UNCHANGED <<last, aux>>
  \/ ApplyPreset({CmdSmaller, CmdAddBelowHeading}) /\ UNCHANGED <<last, aux>>
  \/ Timer /\ UNCHANGED <<last, aux>>

Spec == Init /\ [][Next]_vars

----------------------------------------------------------------------------
(* SpecHistory: the command field, the presets, undo and redo, with `last` *)
(* recording the last handler that could touch the history.                *)

NextHistory ==
  \/ Select /\ last' = Other /\ UNCHANGED aux
  \/ SetCmd({CmdHello}) /\ last' = Other /\ UNCHANGED aux
  \/ Undo /\ last' = Did("undo", Render, undo(Render)) /\ UNCHANGED aux
  \/ Redo /\ last' = Did("redo", Render, redo(Render)) /\ UNCHANGED aux
  \/ ApplyCommand
       /\ last' = Did("applyCommand", Render, applyCommand(Render, clock))
       /\ UNCHANGED aux
  \/ ApplyPreset({CmdSmaller, CmdAddBelowHeading}) /\ last' = Other /\ UNCHANGED aux
  \/ Timer
       /\ last' = Did("timer", Head(pending).render,
                      applyCommand(Head(pending).render, clock))
       /\ UNCHANGED aux

SpecHistory == Init /\ [][NextHistory]_vars

----------------------------------------------------------------------------
(* Properties of the history (C1, C5, C10) and of the presets (C3, C9). *)

\* the render the handler of a step ran in: the one captured at the click
\* for a timer callback, the current one for every other handler
HandlerRender ==
  IF pending # <<>> /\ pending' = Tail(pending) THEN Head(pending).render ELSE Render

UndoLaw ==
  Undo => IF hIndex > 0
          THEN hIndex' = hIndex - 1 /\ history' = history /\ elements' = history[hIndex]
          ELSE UNCHANGED <<hIndex, history, elements>>

RedoLaw ==
  Redo => IF hIndex < Len(history) - 1
          THEN hIndex' = hIndex + 1 /\ history' = history /\ elements' = history[hIndex + 2]
          ELSE UNCHANGED <<hIndex, history, elements>>

PushLaw ==
  last'.what \in {"pushed", "cut"} =>
     /\ history' = SubSeq(HandlerRender.history, 1, HandlerRender.hIndex + 1) \o <<elements'>>
     /\ hIndex' = Len(history') - 1
     /\ redo(Render') = EmptyObj

NoOpCase(R) ==
  LET selected == selectedOf(R)
      patch    == parseCommandToPatch(R.cmd, IF selected # Null THEN selected
                                             ELSE R.elements[1])
  IN  \/ ("content" \notin DOMAIN patch /\ "styles" \notin DOMAIN patch)
      \/ (selected = Null /\ ~IsAdd(patch))

\* C5: applyCommand (from the button or from a timer) with a command that
\* matches no rule, or with a command that is no insertion while nothing is
\* selected, leaves elements, history and cursor alone, and never throws.
C5_NoOpNotRecorded ==
  /\ [](~crashed)
  /\ [][ /\ (ApplyCommand /\ NoOpCase(Render))
              => (UNCHANGED <<elements, history, hIndex>> /\ ~crashed')
         /\ (Timer /\ NoOpCase(Head(pending).render))
              => (UNCHANGED <<elements, history, hIndex>> /\ ~crashed') ]_vars

\* "smaller" was just submitted with nothing selected, and nothing happened
C5_Witness ==
  /\ last # Null
  /\ last.op = "applyCommand"
  /\ last.what = "kept"
  /\ selectedOf(Render) = Null
  /\ cmd = CmdSmaller
  /\ Len(history) > 1

\* C10: the history is never empty, the cursor is an index of it, its first
\* snapshot is the seed and the sequence shown is the snapshot at the cursor.
C10_HistoryConsistent ==
  /\ history # <<>>
  /\ hIndex \in 0 .. Len(history) - 1
  /\ history[1] = initial
  /\ elements = history[hIndex + 1]

\* after pushes and an undo, with a timer outstanding that other events
\* have overtaken
C10_Witness ==
  /\ Len(history) >= 3
  /\ hIndex = 1
  /\ pending # <<>>
  /\ pending[1].raced >= 1
  /\ contentDraft # <<>>

\* the value a setter call of u leaves in a state variable whose value was v
After(u, k, v) == IF k \in DOMAIN u THEN u[k] ELSE v

\* C3: the state after a preset click and its timer callback is the state
\* after typing the preset into the command field and submitting it.
C3_PresetIsTypedAndSubmitted ==
  [][Timer =>
       \E now \in clock .. Clock0 + MaxTick :
          LET typed == [Head(pending).render EXCEPT !.cmd = Head(pending).preset]
              u     == applyCommand(typed, now)
          IN  /\ elements' = After(u, "elements", elements)
              /\ history'  = After(u, "history", history)
              /\ hIndex'   = After(u, "hIndex", hIndex)
              /\ cmd'      = After(u, "cmd", cmd)]_vars

NoDuplicateId(els) ==
  \A i \in DOMAIN els : \A j \in DOMAIN els : i # j => els[i].id # els[j].id

\* C9: no two elements of the sequence shown, nor of a snapshot, share an id.
C9_UniqueIds ==
  /\ NoDuplicateId(elements)
  /\ \A k \in DOMAIN history : NoDuplicateId(history[k])

----------------------------------------------------------------------------
(* SpecRoundTrip: from the seed, patches are applied (aux.n counts them,   *)
(* aux.target is the sequence after the latest one), then undo is clicked  *)
(* aux.n times and then redo aux.n times (aux.k counts the clicks).        *)

RoundTrip0 == [phase |-> "patch", n |-> 0, k |-> 0, target |-> initial]

\* aux after a handler that made the setter calls u in the patch phase
Patched(u) ==
  IF "history" \in DOMAIN u
  THEN [aux EXCEPT !.n = @ + 1, !.target = elements']
  ELSE aux

InitRoundTrip == InitApp /\ last = Null /\ aux = RoundTrip0

PatchPhase ==
  /\ aux.phase = "patch"
  /\ \/ Select /\ UNCHANGED aux
     \/ SetCmd({CmdPx100}) /\ UNCHANGED aux
     \/ SetContentDraft /\ UNCHANGED aux
     \/ ApplyContent /\ aux' = Patched(applyContent(Render))
     \/ ApplyCommand /\ aux' = Patched(applyCommand(Render, clock))
     \/ ApplyPreset({CmdAddBelowHeading}) /\ UNCHANGED aux
     \/ Timer /\ aux' = Patched(applyCommand(Head(pending).render, clock))

UndoPhase ==
  /\ aux.phase \in {"patch", "undo"}
  /\ pending = <<>>
  /\ aux.k < aux.n
  /\ Undo
  /\ aux' = [aux EXCEPT !.phase = "undo", !.k = @ + 1]

RedoPhase ==
  /\ \/ aux.phase = "undo" /\ aux.k = aux.n
     \/ aux.phase = "redo" /\ aux.k < aux.n
  /\ Redo
  /\ aux' = [aux EXCEPT !.phase = "redo", !.k = IF aux.phase = "undo" THEN 1 ELSE @ + 1]

NextRoundTrip ==
  \/ PatchPhase /\ UNCHANGED last
  \/ UndoPhase /\ UNCHANGED last
  \/ RedoPhase /\ UNCHANGED last

SpecRoundTrip == InitRoundTrip /\ [][NextRoundTrip]_vars

\* C2: after N applied patches, N undo clicks and then N redo clicks, the
\* sequence shown is the sequence that existed after the N-th patch.
C2_RoundTrip ==
  (aux.phase = "redo" /\ aux.k = aux.n) => elements = aux.target

\* two patches, the second an insertion, were undone and redone
C2_Witness ==
  /\ aux.phase = "redo"
  /\ aux.n = 2
  /\ aux.k = 2
  /\ Len(elements) = Len(initial) + 1
  /\ hIndex = 2

----------------------------------------------------------------------------
(* SpecSize: the size commands ("bigger" and "smaller" as presets, an      *)
(* explicit pixel value typed) with an insertion, undo and redo; aux is    *)
(* the size command the last handler applied and the size it started from. *)

\* what a handler that ran in render R and made the setter calls u did to a
\* font size: the command and the size before it, Null if it changed none
Resized(R, u) ==
  IF "elements" \in DOMAIN u /\ Len(u.elements) = Len(R.elements) /\ selectedOf(R) # Null
  THEN [cmd |-> R.cmd, from |-> parsePx(Get(selectedOf(R).styles, "fontSize"), 16)]
  ELSE Null

NextSize ==
  \/ Select /\ aux' = Null /\ UNCHANGED last
  \/ SetCmd({CmdPx100, CmdAdd1}) /\ aux' = Null /\ UNCHANGED last
  \/ Undo /\ aux' = Null /\ UNCHANGED last
  \/ Redo /\ aux' = Null /\ UNCHANGED last
  \/ ApplyCommand /\ aux' = Resized(Render, applyCommand(Render, clock)) /\ UNCHANGED last
  \/ ApplyPreset(SizePresets) /\ aux' = Null /\ UNCHANGED last
  \/ Timer
       /\ aux' = Resized(Head(pending).render, applyCommand(Head(pending).render, clock))
       /\ UNCHANGED last

SpecSize == Init /\ [][NextSize]_vars

\* every font size that is set in the sequence els is within 10px..72px
FontSizesClamped(els) ==
  \A i \in DOMAIN els :
     "fontSize" \in DOMAIN els[i].styles => els[i].styles.fontSize.px \in 10 .. 72

\* C4: in every reachable state the font size of every element, in the
\* sequence shown and in every snapshot, is between 10px and 72px.
C4_FontSizeClamped ==
  /\ FontSizesClamped(elements)
  /\ \A k \in DOMAIN history : FontSizesClamped(history[k])

\* "bigger" was just applied to an element that was at 72px already (after
\* an explicit 100px), and it is still at 72px
C4_Witness ==
  /\ aux # Null
  /\ aux.cmd = CmdBigger
  /\ aux.from = 72
  /\ selectedOf(Render) # Null
  /\ selectedOf(Render).styles.fontSize = [px |-> 72]

----------------------------------------------------------------------------
(* SpecInsert: insertion commands typed or clicked, undo, and               *)
(* insertParagraph given an anchor drawn from inside and outside the       *)
(* sequence; aux is what the last inserting handler was given.             *)

\* the label insertParagraph is given with a drawn anchor
DrawnLabel == <<"tekisuto", "1">>

\* null and the anchors from MaxOut below 0 to MaxOut beyond a sequence of
\* length n
Anchors(n) ==
  {Null} \cup [index : (0 - MaxOut) .. (n - 1 + MaxOut), place : {"before", "after"}]

\* insertParagraph(label, anchor) with the drawn anchor a
InsertAt(a) ==
  /\ \E now \in clock .. Clock0 + MaxTick :
        /\ Commit(insertParagraph(Render, DrawnLabel, a, now))
        /\ clock' = now
  /\ UNCHANGED selectedId
  /\ Overtake

\* what an inserting handler was given: the command, the anchor and the
\* length of the sequence of its render
Given(op, R, a) == [op |-> op, cmd |-> R.cmd, anchor |-> a, n |-> Len(R.elements)]

NextInsert ==
  \/ Select /\ aux' = Null /\ UNCHANGED last
  \/ SetCmd({CmdAddThenBlue, CmdAddEverything}) /\ aux' = Null /\ UNCHANGED last
  \/ Undo /\ aux' = Null /\ UNCHANGED last
  \/ ApplyCommand
       /\ aux' = Given("applyCommand", Render,
                       resolveAnchor(cmd, elements, selectedOf(Render)))
       /\ UNCHANGED last
  \/ ApplyPreset({CmdAddBeforeButton}) /\ aux' = Null /\ UNCHANGED last
  \/ Timer
       /\ aux' = Given("timer", Head(pending).render,
                       resolveAnchor(Head(pending).render.cmd, Head(pending).render.elements,
                                     selectedOf(Head(pending).render)))
       /\ UNCHANGED last

SpecInsert == Init /\ [][NextInsert]_vars

NextAnchored ==
  \/ Select /\ aux' = Null /\ UNCHANGED last
  \/ SetCmd({CmdAddBelowHeading, CmdAddBeforeButton}) /\ aux' = Null /\ UNCHANGED last
  \/ Undo /\ aux' = Null /\ UNCHANGED last
  \/ ApplyCommand
       /\ aux' = Given("applyCommand", Render,
                       resolveAnchor(cmd, elements, selectedOf(Render)))
       /\ UNCHANGED last
  \/ \E a \in Anchors(Len(elements)) :
       InsertAt(a) /\ aux' = Given("insertParagraph", Render, a) /\ UNCHANGED last

SpecAnchored == Init /\ [][NextAnchored]_vars

----------------------------------------------------------------------------
(* Properties of insertion (C6, C7). *)

\* the command holds テキスト directly followed by a digit or a circled
\* numeral, and one of the verbs 追加 入れて 挿入 置いて
IsInsertion(c) ==
  /\ \E i \in DOMAIN c : c[i] = "tekisuto" /\ i < Len(c) /\ IsNumeral(c[i + 1])
  /\ \E i \in DOMAIN c : c[i] \in {"tsuika", "irete", "sounyuu", "oite"}

\* the patch carries the sentinel and the normalized label of c, nothing else
OnlySentinelAndLabel(patch, c) ==
  /\ DOMAIN patch = {"content"}
  /\ Head(patch.content) = AddFlag
  /\ Tail(patch.content) = normalizeLabel(MatchLabel(c))
  /\ \A j \in DOMAIN patch.content : patch.content[j] \notin DOMAIN CircledMap

\* els without its element at position at (1-based)
Remove(els, at) == SubSeq(els, 1, at - 1) \o SubSeq(els, at + 1, Len(els))

\* the step added one paragraph to the sequence of render R and changed no
\* other element
OneParagraphAdded(R) ==
  /\ Len(elements') = Len(R.elements) + 1
  /\ \E at \in DOMAIN elements' :
        /\ elements'[at].type = "paragraph"
        /\ elements'[at].styles = placeholderStyle
        /\ Remove(elements', at) = R.elements

SpecifiedPosition(a, n) ==
  IF a = Null THEN n
  ELSE IF a.place = "before" THEN Min(Max(a.index, 0), n)
  ELSE Min(Max(a.index + 1, 0), n)

\* the step put a new paragraph at the specified position of the sequence of
\* render R, kept every other element in order, and pushed the result
InsertedAt(R, a) ==
  LET n  == Len(R.elements)
      at == SpecifiedPosition(a, n)
  IN  /\ Len(elements') = n + 1
      /\ elements'[at + 1].type = "paragraph"
      /\ elements'[at + 1].styles = placeholderStyle
      /\ \A j \in 1 .. at : elements'[j] = R.elements[j]
      /\ \A j \in at + 1 .. n : elements'[j + 1] = R.elements[j]
      /\ history' = SubSeq(R.history, 1, R.hIndex + 1) \o <<elements'>>
      /\ hIndex' = Len(history') - 1

\* the step put a paragraph with the label at position at (1-based) of the
\* seed sequence
SeedWith(label, at) ==
  /\ elements'[at].type = "paragraph"
  /\ elements'[at].content = label
  /\ Remove(elements', at) = initial

\* C7: insertParagraph puts the new paragraph at min(max(i, 0), n) for an
\* anchor (i, before), at min(max(i + 1, 0), n) for (i, after) and at n for
\* null, keeps the other elements and their order, and pushes the result;
\* applyCommand inserts at the anchor resolveAnchor gives; on the seed,
\* "add text 2 below the heading" puts it between heading and paragraph and
\* "add text 3 before the button" between paragraph and button.
C7_InsertedAtAnchor ==
  [][ /\ \A a \in Anchors(Len(elements)) : InsertAt(a) => InsertedAt(Render, a)
      /\ (ApplyCommand /\ IsInsertion(cmd))
           => InsertedAt(Render, resolveAnchor(cmd, elements, selectedOf(Render)))
      /\ (ApplyCommand /\ cmd = CmdAddBelowHeading /\ elements = initial)
           => SeedWith(<<"tekisuto", "2">>, 2)
      /\ (ApplyCommand /\ cmd = CmdAddBeforeButton /\ elements = initial)
           => SeedWith(<<"tekisuto", "3">>, 3) ]_vars

\* insertParagraph was just given an anchor MaxOut beyond the end of a
\* sequence that had grown already: the paragraph is last, and the result is
\* the latest snapshot with the cursor on it
C7_Witness ==
  /\ aux # Null
  /\ aux.op = "insertParagraph"
  /\ aux.anchor # Null
  /\ aux.anchor.index = aux.n - 1 + MaxOut
  /\ aux.anchor.place = "after"
  /\ aux.n = Len(initial) + 1
  /\ Len(elements) = aux.n + 1
  /\ elements[Len(elements)].content = DrawnLabel
  /\ Len(history) = 3
  /\ hIndex = 2

----------------------------------------------------------------------------
(* SpecAnchor: resolveAnchor on drawn inputs: a sequence of up to MaxLen   *)
(* elements of any kinds, one of them or none selected, and a command.     *)

\* 一番上にテキスト1を追加
CmdAddTop        == <<"ichiban-ue", "ni", "tekisuto", "1", "wo", "tsuika">>
\* 一番下にテキスト1を追加
CmdAddBottom     == <<"ichiban-shita", "ni", "tekisuto", "1", "wo", "tsuika">>
\* 先頭 末尾 に追加
CmdTopAndBottom  == <<"sentou", "matsubi", "ni", "tsuika">>
\* 見出しの上にテキスト2を追加
CmdAddAboveHeading == <<"midashi", "no", "ue", "ni", "tekisuto", "2", "wo", "tsuika">>
\* buttonの前にテキスト3を追加
CmdAddBeforeEnglishButton ==
  <<"button", "no", "mae", "ni", "tekisuto", "3", "wo", "tsuika">>
\* 見出し ボタン の後に追加
CmdHeadingOrButton == <<"midashi", "botan", "no", "ato", "ni", "tsuika">>
\* 前に追加
CmdBefore        == <<"mae", "ni", "tsuika">>
\* 追加
CmdPlain         == <<"tsuika">>

AnchorCommands ==
  {CmdAddTop, CmdAddBottom, CmdTopAndBottom, CmdAddBelowHeading, CmdAddAboveHeading,
   CmdAddBeforeButton, CmdAddBeforeEnglishButton, CmdAdd1, CmdHeadingOrButton,
   CmdBefore, CmdPlain}

Kinds == {"heading", "paragraph", "button"}

\* the element sequences of at most MaxLen elements, one per sequence of kinds
Sequences ==
  UNION { { [i \in 1 .. k |-> [id |-> <<"e-", i>>, type |-> ks[i], content |-> <<>>,
                               styles |-> EmptyObj]] : ks \in [1 .. k -> Kinds] }
          : k \in 0 .. MaxLen }

InitAnchor ==
  /\ elements \in Sequences
  /\ selectedId \in {NullId} \cup {elements[i].id : i \in DOMAIN elements}
  /\ cmd \in AnchorCommands
  /\ contentDraft = <<>>
  /\ history = <<elements>>
  /\ hIndex = 0
  /\ pending = <<>>
  /\ clock = Clock0
  /\ crashed = FALSE
  /\ last = Null
  /\ aux = Null

\* const anchor = resolveAnchor(cmd, elements, selected)
ResolveAnchor ==
  /\ aux = Null
  /\ aux' = [anchor |-> resolveAnchor(cmd, elements, selectedOf(Render))]
  /\ UNCHANGED <<elements, selectedId, cmd, contentDraft, history, hIndex, pending,
                 clock, crashed, last>>

NextAnchor == ResolveAnchor

SpecAnchor == InitAnchor /\ [][NextAnchor]_vars

\* the anchor specified: top, bottom, the first of heading, paragraph
\* (when no button is referred to) and button that is named and occurs, the
\* selection, null
SpecifiedAnchor(c, els, selected) ==
  LET place    == IF Test(c, {"mae", "ue", "before"}) THEN "before" ELSE "after"
      button   == Test(c, {"botan", "button"})
      order    == <<"heading", "paragraph", "button">>
      named(k) == CASE k = 1 -> Test(c, {"midashi", "hedda", "heading", "h1"})
                    [] k = 2 -> Test(c, {"danraku", "honbun", "paragraph", "tekisuto"})
                                /\ ~button
                    [] k = 3 -> button
      usable   == {k \in 1 .. 3 : named(k) /\ FindType(els, order[k]) >= 0}
      first    == CHOOSE k \in usable : \A m \in usable : k <= m
  IN  IF Test(c, {"ichiban-ue", "sentou", "top"}) THEN [index |-> 0, place |-> "before"]
      ELSE IF Test(c, {"ichiban-shita", "matsubi", "bottom"})
        THEN [index |-> Len(els) - 1, place |-> "after"]
      ELSE IF usable # {} THEN [index |-> FindType(els, order[first]), place |-> place]
      ELSE IF selected # Null THEN [index |-> FindId(els, selected.id), place |-> place]
      ELSE Null

\* C8: resolveAnchor returns the anchor of the first applicable rule in the
\* order top, bottom, named kind that occurs (heading, paragraph unless a
\* button is referred to, button), selection, null; and the index of an
\* anchor it returns for a non-empty sequence is an index of the sequence.
C8_ResolveAnchorOrder ==
  aux # Null =>
     /\ aux.anchor = SpecifiedAnchor(cmd, elements, selectedOf(Render))
     /\ (aux.anchor # Null /\ elements # <<>>)
           => aux.anchor.index \in 0 .. Len(elements) - 1

====
